---- MODULE Spec2Model ----
(***************************************************************************)
(* Model of programmer.py: an STK500 uploader that reads an Intel-hex file *)
(* (parse_line, read_hex_file), pulses the target's reset line over an AT  *)
(* command connection (ATLine) and programs the target over a second       *)
(* connection (SerialLine).                                                *)
(*                                                                         *)
(* The program is sequential.  Each action of the model runs the program   *)
(* from one blocking socket call (select or recv) to the next one, sends   *)
(* included.  The target is the environment: it may put bytes on the       *)
(* programming connection at any time, fall silent, or close the stream.   *)
(***************************************************************************)
EXTENDS Integers, Sequences, FiniteSets, TLC

(***************************************************************************)
(* Protocol bytes (command.h part of programmer.py).                       *)
(***************************************************************************)
Resp_STK_OK == 16
Resp_STK_FAILED == 17
Resp_STK_INSYNC == 20
Resp_STK_NOSYNC == 21
Sync_CRC_EOP == 32
Cmnd_STK_GET_SYNC == 48
Cmnd_STK_GET_PARAMETER == 65
Cmnd_STK_SET_DEVICE == 66
Cmnd_STK_SET_DEVICE_EXT == 69
Cmnd_STK_ENTER_PROGMODE == 80
Cmnd_STK_LEAVE_PROGMODE == 81
Cmnd_STK_LOAD_ADDRESS == 85
Cmnd_STK_PROG_PAGE == 100
Cmnd_STK_READ_PAGE == 116
Cmnd_STK_READ_SIGN == 117

(***************************************************************************)
(* Python helpers: slices, int(s, 16), binascii.a2b_hex.                   *)
(* A text is a sequence of one-character strings.                          *)
(***************************************************************************)
Min(a, b) == IF a < b THEN a ELSE b
Max(a, b) == IF a > b THEN a ELSE b

\* A slice bound as Python normalises it: negative counts from the end,
\* then clamped to 0..len.
SliceIdx(i, len) == IF i < 0 THEN Max(i + len, 0) ELSE Min(i, len)

\* s[a:b] with Python's 0-based, half-open, tolerant slicing.
SliceOf(s, lo, hi) == IF lo >= hi THEN <<>> ELSE SubSeq(s, lo + 1, hi)

Slice(s, a, b) == SliceOf(s, SliceIdx(a, Len(s)), SliceIdx(b, Len(s)))

\* s[a:]
SliceFrom(s, a) == Slice(s, a, Len(s))

HexChars == <<"0", "1", "2", "3", "4", "5", "6", "7", "8", "9",
              "A", "B", "C", "D", "E", "F">>
LowerHexChars == <<"a", "b", "c", "d", "e", "f">>

IsHexDigit(c) ==
  \/ \E k \in 1..16 : HexChars[k] = c
  \/ \E k \in 1..6 : LowerHexChars[k] = c

\* The value of one hexadecimal digit, upper or lower case.
HexVal(c) ==
  IF \E k \in 1..16 : HexChars[k] = c
  THEN (CHOOSE k \in 1..16 : HexChars[k] = c) - 1
  ELSE (CHOOSE k \in 1..6 : LowerHexChars[k] = c) + 9

RECURSIVE LStrip(_)
LStrip(s) == IF s # <<>> /\ Head(s) = " " THEN LStrip(Tail(s)) ELSE s

RECURSIVE RStrip(_)
RStrip(s) ==
  IF s # <<>> /\ s[Len(s)] = " " THEN RStrip(SubSeq(s, 1, Len(s) - 1)) ELSE s

\* str.strip() (the blank is the only whitespace character of the model).
Strip(s) == LStrip(RStrip(s))

\* The digits of an integer literal: hexadecimal digits with single
\* underscores between them; lead is TRUE where an underscore may stand
\* (after a digit, or right after the 0x prefix).
RECURSIVE DigitsOK(_, _, _)
DigitsOK(s, lead, any) ==
  IF s = <<>> THEN any
  ELSE IF Head(s) = "_"
       THEN lead /\ Len(s) > 1 /\ IsHexDigit(s[2]) /\ DigitsOK(Tail(s), FALSE, any)
       ELSE IsHexDigit(Head(s)) /\ DigitsOK(Tail(s), TRUE, TRUE)

RECURSIVE DigitsVal(_, _)
DigitsVal(s, acc) ==
  IF s = <<>> THEN acc
  ELSE IF Head(s) = "_" THEN DigitsVal(Tail(s), acc)
       ELSE DigitsVal(Tail(s), acc * 16 + HexVal(Head(s)))

\* int(s, 16): surrounding blanks, an optional sign and an optional 0x
\* prefix are accepted; anything else raises ValueError (err).
PyIntDigits(neg, d, pre) ==
  IF DigitsOK(d, pre, FALSE)
  THEN [err |-> FALSE, val |-> IF neg THEN 0 - DigitsVal(d, 0) ELSE DigitsVal(d, 0)]
  ELSE [err |-> TRUE, val |-> 0]

PyIntPrefix(neg, u) ==
  IF Len(u) >= 2 /\ u[1] = "0" /\ u[2] \in {"x", "X"}
  THEN PyIntDigits(neg, SliceFrom(u, 2), TRUE)
  ELSE PyIntDigits(neg, u, FALSE)

PyIntSign(t) ==
  IF t # <<>> /\ Head(t) \in {"+", "-"}
  THEN PyIntPrefix(Head(t) = "-", Tail(t))
  ELSE PyIntPrefix(FALSE, t)

PyInt16(s) == PyIntSign(Strip(s))

\* The bytes that the pairs of hexadecimal digits of s stand for.
HexPairs(s) ==
  [k \in 1..(Len(s) \div 2) |-> HexVal(s[2 * k - 1]) * 16 + HexVal(s[2 * k])]

\* binascii.a2b_hex(s): an odd length or a non-hexadecimal character raises
\* binascii.Error, a ValueError.
A2bHex(s) ==
  IF Len(s) % 2 = 0 /\ \A k \in 1..Len(s) : IsHexDigit(s[k])
  THEN [err |-> FALSE, val |-> HexPairs(s)]
  ELSE [err |-> TRUE, val |-> <<>>]

\* The sum of s[lo..hi], by halves.
RECURSIVE SumRange(_, _, _)
SumRange(s, lo, hi) ==
  IF lo > hi THEN 0
  ELSE IF lo = hi THEN s[lo]
  ELSE LET mid == (lo + hi) \div 2
       IN  SumRange(s, lo, mid) + SumRange(s, mid + 1, hi)

SumSeq(s) == SumRange(s, 1, Len(s))

(***************************************************************************)
(* parse_line                                                              *)
(***************************************************************************)
\* The check of programmer.py line 444: (~(sum & 0xFF) + 1) & 0xFF == checksum
ChecksumOK(sum, checksum) == (0 - (sum % 256)) % 256 = checksum

\* Lines 442-445: the sum, the check, and the tuple returned.
ParseRecord(size, address, ty, data, checksum) ==
  [err |-> FALSE, size |-> size, address |-> address, ty |-> ty, data |-> data,
   checksum |-> checksum,
   ok |-> ChecksumOK(size + (address \div 256) + (address % 256) + ty + SumSeq(data),
                     checksum)]

\* Lines 439-440 have converted the data and the checksum.
ParseChecked(size, address, ty, data, checksum) ==
  IF data.err \/ checksum.err THEN [err |-> TRUE]
  ELSE ParseRecord(size, address, ty, data.val, checksum.val)

\* Lines 435-437 have converted size, address and ty.
ParseHead(line, size, address, ty) ==
  IF size.err \/ address.err \/ ty.err THEN [err |-> TRUE]
  ELSE ParseChecked(size.val, address.val, ty.val,
                    A2bHex(Slice(line, 9, 9 + size.val * 2)),
                    PyInt16(SliceFrom(line, 9 + size.val * 2)))

\* parse_line(line): the record (size, address, ty, data, checksum, ok), or
\* err when one of the conversions raises ValueError.
parse_line(line) ==
  ParseHead(line, PyInt16(Slice(line, 1, 3)), PyInt16(Slice(line, 3, 7)),
            PyInt16(Slice(line, 7, 9)))

(***************************************************************************)
(* read_hex_file.  A file is [open, lines]: open is FALSE when open()      *)
(* raises IOError; lines are the file's lines without their line ends.     *)
(* The result is [kind, chunks]: kind "list" (chunks returned), "None"     *)
(* (file rejected), or the exception that escapes.                         *)
(***************************************************************************)
\* Data.__init__
Data(begin, data) == [begin |-> begin, data |-> data, size |-> Len(data)]

\* line[0] of a line as readline returns it: an empty line is its line end.
FirstChar(line) == IF line = <<>> THEN "\n" ELSE line[1]

\* AddRecord with the bug of not moving index on to the chunk it appends.
AddRecordKeepsIndex(cs, idx, rec) ==
  IF cs[idx + 1].begin + cs[idx + 1].size = rec.address
  THEN [chunks |-> [cs EXCEPT ![idx + 1].size = @ + rec.size,
                              ![idx + 1].data = @ \o rec.data],
        index |-> idx]
  ELSE [chunks |-> Append(cs, Data(rec.address, rec.data)),
        index |-> idx]

\* Lines 480-485: the record extends the current chunk when it starts where
\* that chunk ends, and opens a new current chunk otherwise.
AddRecord(cs, idx, rec) ==
  IF cs[idx + 1].begin + cs[idx + 1].size = rec.address
  THEN [chunks |-> [cs EXCEPT ![idx + 1].size = @ + rec.size,
                              ![idx + 1].data = @ \o rec.data],
        index |-> idx]
  ELSE [chunks |-> Append(cs, Data(rec.address, rec.data)),
        index |-> idx + 1]

\* Lines 465-473: the first record seeds the list of chunks.
FirstRecord(rec) ==
  IF rec.err THEN [kind |-> "ValueError"]
  ELSE IF ~rec.ok THEN [kind |-> "None"]
  ELSE [kind |-> "reading", chunks |-> <<Data(rec.address, rec.data)>>,
        index |-> 0, count |-> 2]

\* Lines 454-464: open the file and read its first line.
ReadFirst(f) ==
  IF ~f.open THEN [kind |-> "None"]
  ELSE IF f.lines = <<>> THEN [kind |-> "IndexError"]
  ELSE IF FirstChar(f.lines[1]) # ":" THEN [kind |-> "None"]
  ELSE FirstRecord(parse_line(Strip(f.lines[1])))

\* Lines 476-486: a later record.
NextRecord(h, rec, a) ==
  IF rec.err THEN [kind |-> "ValueError"]
  ELSE IF ~rec.ok THEN [kind |-> "None"]
  ELSE [kind |-> "reading", chunks |-> a.chunks, index |-> a.index,
        count |-> h.count + 1]

\* Lines 474-486: one iteration of the loop over the remaining lines.
ReadNextRec(h, rec) ==
  NextRecord(h, rec, IF rec.err THEN h ELSE AddRecord(h.chunks, h.index, rec))

ReadNext(h, line) == ReadNextRec(h, parse_line(Strip(line)))

\* Line 487: the end of the file is reached.
ReadDone(h) == [kind |-> "list", chunks |-> h.chunks]

RECURSIVE ReadRest(_, _, _)
ReadRest(h, lines, n) ==
  IF h.kind # "reading" THEN h
  ELSE IF n > Len(lines) THEN ReadDone(h)
  ELSE ReadRest(ReadNext(h, lines[n]), lines, n + 1)

read_hex_file(f) == ReadRest(ReadFirst(f), f.lines, 2)

(***************************************************************************)
(* Hex files used as inputs.  FormatLine writes a record as a text line,   *)
(* with upper-case digits and the checksum given.                          *)
(***************************************************************************)
Hex2(n) == <<HexChars[((n \div 16) % 16) + 1], HexChars[(n % 16) + 1]>>
Hex4(n) == Hex2(n \div 256) \o Hex2(n % 256)

HexData(d) ==
  [k \in 1..(2 * Len(d)) |-> Hex2(d[(k + 1) \div 2])[2 - (k % 2)]]

\* The checksum a well-formed record carries.
RecordChecksum(address, ty, d) ==
  (0 - (Len(d) + (address \div 256) + (address % 256) + ty + SumSeq(d))) % 256

FormatLineWith(address, ty, d, checksum) ==
  <<":">> \o Hex2(Len(d)) \o Hex4(address) \o Hex2(ty) \o HexData(d) \o Hex2(checksum)

FormatLine(address, ty, d) == FormatLineWith(address, ty, d, RecordChecksum(address, ty, d))

\* The end-of-file record, :00000001FF
EofLine == FormatLine(0, 1, <<>>)

(***************************************************************************)
(* Bounds of the model.                                                    *)
(***************************************************************************)
\* The most bytes the target has sent that the program has not yet received
\* (page data apart, which arrives in segments of up to a page).
MaxRx == 4

\* The bytes the target answers with: the in-sync marker, and ok, which is
\* also the byte that is not the in-sync marker.  (The program compares a
\* received byte with these two values only.)
ReplyBytes == {Resp_STK_OK, Resp_STK_INSYNC}

(***************************************************************************)
(* Program constants of SerialLine.                                        *)
(***************************************************************************)
\* pgsz = 0x80 in upload and verify
pgsz == 128

\* range(10) in sync
SyncAttempts == 10

\* The parameters run queries: HW_VER, SW_MAJOR, SW_MINOR, 0x98, VTARGET,
\* VADJUST, OSC_PSCALE, OSC_CMATCH, SCK_DURATION.
ParamList == <<128, 129, 130, 152, 132, 133, 134, 135, 137>>

(***************************************************************************)
(* The packets the program sends on the programming connection.            *)
(***************************************************************************)
SyncPacket == <<Cmnd_STK_GET_SYNC, Sync_CRC_EOP>>

ParamPacket(arg) == <<Cmnd_STK_GET_PARAMETER, arg, Sync_CRC_EOP>>

SetDevicePacket ==
  <<Cmnd_STK_SET_DEVICE, 134, 0, 0, 1, 1, 1, 1, 3, 255, 255, 255, 255,
    0, 128, 4, 0, 0, 0, 128, 0, Sync_CRC_EOP>>

SetDeviceExtPacket == <<Cmnd_STK_SET_DEVICE_EXT, 5, 4, 215, 194, 0, Sync_CRC_EOP>>

SignPacket == <<Cmnd_STK_READ_SIGN, Sync_CRC_EOP>>

TxPacket(command) == <<command, Sync_CRC_EOP>>

\* ab = bytes([0xff & addr, 0xff & (addr >> 8)])
LoadAddressPacket(a) ==
  <<Cmnd_STK_LOAD_ADDRESS, a % 256, (a \div 256) % 256, Sync_CRC_EOP>>

\* ps = bytes([0xff & (pgsz >> 8), 0xff & pgsz])
PageSizeBytes == <<(pgsz \div 256) % 256, pgsz % 256>>

ProgPagePacket(block) ==
  <<Cmnd_STK_PROG_PAGE>> \o PageSizeBytes \o <<70>> \o block \o <<Sync_CRC_EOP>>

ReadPagePacket == <<Cmnd_STK_READ_PAGE>> \o PageSizeBytes \o <<70, Sync_CRC_EOP>>

\* Pad with the bug of filling with 0x00.
PadWithZero(b) == IF Len(b) < pgsz THEN b \o [k \in 1..(pgsz - Len(b)) |-> 0] ELSE b

\* Lines 283-285: a short block is padded with 0xff to pgsz bytes.
Pad(b) == IF Len(b) < pgsz THEN b \o [k \in 1..(pgsz - Len(b)) |-> 255] ELSE b

\* block = c.data[index:index + pgsz], padded.
Block(c, idx) == Pad(Slice(c.data, idx, idx + pgsz))

(***************************************************************************)
(* State.                                                                  *)
(***************************************************************************)
VARIABLES
  file,        \* the hex file main is given
  conf,        \* the configuration main loads
  h,           \* read_hex_file: its state while it reads, and its result
  lineNo,      \* read_hex_file: the number of the next line of the file
  chunks,      \* main's chunks (empty until read_hex_file returns a list)
  pc,          \* the blocking call the program is at
  ret,         \* the caller of the sync or ack in progress
  it,          \* sync's loop counter
  v,           \* run's loop over ParamList: the position of v (1-based)
  ci,          \* upload's and verify's loop over chunks: the position of c
  index,       \* upload's and verify's index
  addr,        \* upload's and verify's addr
  data,        \* verify's data
  sign,        \* run's sign: "unset", "None" or "bytes"
  rx,          \* programming connection: bytes sent by the target, not yet received
  closed,      \* programming connection: the target has closed the stream
  sl,          \* SerialLine's socket: "unopened", "open", "closed"
  at,          \* ATLine's socket: "unopened", "open", "closed"
  gpio,        \* the value ("0", "1") of the last AT+GPIO0=<value> command sent, "unset" before
  out,         \* the packets the latest program step sent on the programming connection
  lastAck,     \* what the ack that returned in the latest program step saw and returned
  uploadAckFail, \* history: an ack of upload failed
  nSyncFail,   \* history: the sync calls that gave up
  paramFailed, \* history: a get_param returned None
  enterAcked,  \* history: enter-programming-mode was acknowledged
  uploaded,    \* history: upload's result, "none", "ok" or "failed"
  verifyDev,   \* history: a page of verify deviated
  nProg,       \* history: program-page commands acknowledged
  nLeave,      \* history: leave-programming-mode commands sent
  runEnd,      \* history: how run ended: "none", "running", "return" or the exception
  caught,      \* history: main caught a KeyboardInterrupt
  exitKind,    \* how main ended: "none", "normal" or the escaping exception
  lastCmd,     \* history: the command byte of the last packet sent on the programming connection, 0 before
  nGetSync     \* the get-sync packets sent by the sync calls of run, while run is in them (0 after)

vars == <<file, conf, h, lineNo, chunks, pc, ret, it, v, ci, index, addr, data, sign, rx,
          closed, sl, at, gpio, out, lastAck, uploadAckFail, nSyncFail, paramFailed,
          enterAcked, uploaded, verifyDev, nProg, nLeave, runEnd, caught, exitKind,
          lastCmd, nGetSync>>

None == "None"

\* lastAck when no ack returned in the latest program step, and when one did:
\* whether its select timed out, the first and the second byte it received
\* (empty when it received none), and what it returned.
NoAck == [returned |-> FALSE, timeout |-> FALSE, first |-> <<>>, second |-> <<>>,
          result |-> FALSE]
AckLog(timeout, first, second, result) ==
  [returned |-> TRUE, timeout |-> timeout, first |-> first, second |-> second,
   result |-> result]

\* The program's state as a record, and the step that installs one.
Cur ==
  [h |-> h, chunks |-> chunks, pc |-> pc, ret |-> ret, it |-> it, v |-> v, ci |-> ci,
   index |-> index, addr |-> addr, data |-> data, sign |-> sign, rx |-> rx,
   sl |-> sl, at |-> at, gpio |-> gpio, out |-> out, lastAck |-> lastAck,
   uploadAckFail |-> uploadAckFail,
   nSyncFail |-> nSyncFail, paramFailed |-> paramFailed,
   enterAcked |-> enterAcked, uploaded |-> uploaded, verifyDev |-> verifyDev,
   nProg |-> nProg, nLeave |-> nLeave, runEnd |-> runEnd, caught |-> caught,
   exitKind |-> exitKind, lastCmd |-> lastCmd, nGetSync |-> nGetSync]

Commit(m) ==
  /\ h' = m.h /\ chunks' = m.chunks /\ pc' = m.pc /\ ret' = m.ret /\ it' = m.it /\ v' = m.v
  /\ ci' = m.ci /\ index' = m.index /\ addr' = m.addr /\ data' = m.data
  /\ sign' = m.sign /\ rx' = m.rx /\ sl' = m.sl /\ at' = m.at /\ gpio' = m.gpio
  /\ out' = m.out /\ lastAck' = m.lastAck /\ uploadAckFail' = m.uploadAckFail
  /\ nSyncFail' = m.nSyncFail
  /\ paramFailed' = m.paramFailed /\ enterAcked' = m.enterAcked
  /\ uploaded' = m.uploaded /\ verifyDev' = m.verifyDev /\ nProg' = m.nProg
  /\ nLeave' = m.nLeave /\ runEnd' = m.runEnd /\ caught' = m.caught
  /\ exitKind' = m.exitKind
  /\ lastCmd' = m.lastCmd /\ nGetSync' = m.nGetSync
  /\ UNCHANGED <<file, conf, lineNo, closed>>

\* The state a program step starts from: nothing sent yet, no ack returned.
Fresh == [Cur EXCEPT !.out = <<>>, !.lastAck = NoAck]

\* sock.sendall(packet) on the programming connection.
Send(m, packet) == [m EXCEPT !.out = Append(@, packet), !.lastCmd = packet[1]]

\* select: the socket is readable when bytes wait or the stream has ended.
Readable == rx # <<>> \/ closed

\* sock.recv(n): the bytes it returns (none at the end of the stream) ...
RecvBytes(m, n) == SubSeq(m.rx, 1, Min(n, Len(m.rx)))

\* ... and the state after it.
Drop(m, n) == [m EXCEPT !.rx = SubSeq(@, Min(n, Len(@)) + 1, Len(@))]

\* SerialLine.clean: ten polls, each receiving what has arrived.
clean(m) == [m EXCEPT !.rx = <<>>]

\* The locals of run and of the functions it calls go out of scope.
ClearLocals(m) ==
  [m EXCEPT !.ret = "", !.it = 0, !.v = 0, !.ci = 0, !.index = 0, !.addr = 0,
            !.data = <<>>, !.nGetSync = 0]

(***************************************************************************)
(* main after the try block, and the ways run ends.                        *)
(***************************************************************************)
\* ATLine.close up to its first recv: AT+GPIO0=0 is sent.
AtCloseStart(m) == [m EXCEPT !.pc = "at_close_gpio", !.gpio = "0"]

\* run returns: main goes on with at.close().
RunReturn(m) == AtCloseStart([ClearLocals(m) EXCEPT !.runEnd = "return"])

\* run raises an exception main does not catch: the process ends.
RunRaise(m, exc) ==
  [ClearLocals(m) EXCEPT !.runEnd = exc, !.pc = "exit", !.exitKind = exc]

\* tx(Cmnd_STK_LEAVE_PROGMODE, ...) up to the select of its ack.
Leave(m) ==
  [Send(m, TxPacket(Cmnd_STK_LEAVE_PROGMODE)) EXCEPT
     !.pc = "ack_wait", !.ret = "leave", !.nLeave = @ + 1,
     !.ci = 0, !.index = 0, !.addr = 0, !.data = <<>>]

(***************************************************************************)
(* verify                                                                  *)
(***************************************************************************)
\* The position of the first chunk at or after position i that the loop over
\* chunks does not skip (c.size == 0: continue), 0 when there is none.
RECURSIVE NextChunk(_, _)
NextChunk(cs, i) ==
  IF i > Len(cs) THEN 0
  ELSE IF cs[i].size = 0 THEN NextChunk(cs, i + 1) ELSE i

\* verify returns (run line 369 follows).
VerifyReturn(m) == Leave(m)

\* A deviation on a page that makes verify return (lines 332-341).
VerifyAbort(m) == VerifyReturn([m EXCEPT !.verifyDev = TRUE])

\* The load-address of the page at index (lines 304-308).
VerifyPage(m) ==
  [Send(m, LoadAddressPacket(m.addr)) EXCEPT
     !.pc = "ack_wait", !.ret = "verify_load", !.data = <<>>]

\* The loop over chunks, from position i: the first page of the next chunk
\* that is not skipped (its data is not empty, so the while loop is entered).
VerifyChunk(m, i) ==
  LET n == NextChunk(m.chunks, i)
  IN  IF n = 0 THEN VerifyReturn(m)
      ELSE VerifyPage([m EXCEPT !.ci = n, !.addr = m.chunks[n].begin, !.index = 0])

\* The test of the while loop (line 303).
VerifyLoop(m) ==
  IF m.index < Len(m.chunks[m.ci].data) THEN VerifyPage(m)
  ELSE VerifyChunk(m, m.ci + 1)

\* Lines 342-343.
VerifyAdvance(m) ==
  VerifyLoop([m EXCEPT !.addr = @ + (pgsz \div 2), !.index = @ + pgsz])

\* Lines 321-324 when the first byte of the reply is not the in-sync marker:
\* no branch returns, the loop goes on with the next page.
VerifyNotInSync(m) == VerifyAdvance([m EXCEPT !.verifyDev = TRUE])

\* Lines 330-338: the status byte r, then the comparison of the page.
VerifyStatus(m, r) ==
  IF r # <<Resp_STK_OK>> THEN VerifyAbort(m)
  ELSE IF m.data # Block(m.chunks[m.ci], m.index) THEN VerifyAbort(m)
  ELSE VerifyAdvance(m)

(***************************************************************************)
(* upload                                                                  *)
(***************************************************************************)
\* upload returns ok: run goes on with verify, or leaves programming mode.
UploadReturn(m, ok) ==
  IF ok THEN VerifyChunk([m EXCEPT !.uploaded = "ok"], 1)
  ELSE Leave([m EXCEPT !.uploaded = "failed"])

\* UploadAckFailed with the bug of going on to verify instead of returning.
UploadAckFailedGoesOn(m) == UploadReturn(m, TRUE)

\* A failed ack in upload (lines 280-281, 290-291).
UploadAckFailed(m) == UploadReturn(m, FALSE)

\* The load-address of the page at index (lines 276-280).
UploadAddress(m) ==
  [Send(m, LoadAddressPacket(m.addr)) EXCEPT
     !.pc = "ack_wait", !.ret = "upload_load"]

\* The loop over chunks, from position i: the first page of the next chunk
\* that is not skipped (its data is not empty, so the while loop is entered).
UploadChunk(m, i) ==
  LET n == NextChunk(m.chunks, i)
  IN  IF n = 0 THEN UploadReturn(m, TRUE)
      ELSE UploadAddress([m EXCEPT !.ci = n, !.addr = m.chunks[n].begin, !.index = 0])

\* UploadLoop with the bug of a loop test that drops a short last page.
UploadLoopDropsShortPage(m) ==
  IF m.index + pgsz <= Len(m.chunks[m.ci].data) THEN UploadAddress(m)
  ELSE UploadChunk(m, m.ci + 1)

\* The test of the while loop (line 275).
UploadLoop(m) ==
  IF m.index < Len(m.chunks[m.ci].data) THEN UploadAddress(m)
  ELSE UploadChunk(m, m.ci + 1)

\* Lines 282-289: the page is sent.
UploadPage(m) ==
  [Send(m, ProgPagePacket(Block(m.chunks[m.ci], m.index))) EXCEPT
     !.pc = "ack_wait", !.ret = "upload_prog"]

\* UploadAdvance with the bug of programming the next page of the chunk
\* without a load-address of its own.
UploadAdvanceNoAddress(m) ==
  IF m.index + pgsz < Len(m.chunks[m.ci].data)
  THEN UploadPage([m EXCEPT !.nProg = @ + 1, !.addr = @ + (pgsz \div 2),
                            !.index = @ + pgsz])
  ELSE UploadLoop([m EXCEPT !.nProg = @ + 1, !.addr = @ + (pgsz \div 2),
                            !.index = @ + pgsz])

\* UploadAdvance with the bug of stepping addr by the page size in bytes.
UploadAdvanceByBytes(m) ==
  UploadLoop([m EXCEPT !.nProg = @ + 1, !.addr = @ + pgsz, !.index = @ + pgsz])

\* Lines 292-293.
UploadAdvance(m) ==
  UploadLoop([m EXCEPT !.nProg = @ + 1, !.addr = @ + (pgsz \div 2),
                       !.index = @ + pgsz])

(***************************************************************************)
(* run                                                                     *)
(***************************************************************************)
\* get_signature returned s ("None" or "bytes"): lines 362-365.
SignReturn(m, s) ==
  IF s = None THEN Leave([m EXCEPT !.sign = None])
  ELSE UploadChunk([m EXCEPT !.sign = s], 1)

\* get_signature up to its select.
GetSignature(m) == [Send(m, SignPacket) EXCEPT !.pc = "sign_wait", !.ret = ""]

\* The return of ack to its caller, with the caller's next steps.
AckReturn(m, result) ==
  CASE m.ret = "set_device" ->
         IF result
         THEN [Send(m, SetDeviceExtPacket) EXCEPT
                 !.pc = "ack_wait", !.ret = "set_device_extended"]
         ELSE RunReturn(m)
    [] m.ret = "set_device_extended" ->
         IF result
         THEN [Send(m, TxPacket(Cmnd_STK_ENTER_PROGMODE)) EXCEPT
                 !.pc = "ack_wait", !.ret = "enter"]
         ELSE RunReturn(m)
    [] m.ret = "enter" ->
         IF result THEN GetSignature([m EXCEPT !.enterAcked = TRUE])
         ELSE RunReturn(m)
    [] m.ret = "upload_load" ->
         IF result THEN UploadPage(m)
         ELSE UploadAckFailed([m EXCEPT !.uploadAckFail = TRUE])
    [] m.ret = "upload_prog" ->
         IF result THEN UploadAdvance(m)
         ELSE UploadAckFailed([m EXCEPT !.uploadAckFail = TRUE])
    [] m.ret = "verify_load" ->
         IF result
         THEN [Send(m, ReadPagePacket) EXCEPT !.pc = "page_wait", !.ret = ""]
         ELSE VerifyReturn(m)
    [] m.ret = "leave" -> RunReturn(m)

\* AckSecond with the bug of taking any second byte for ok.
AckSecondAny(r) == TRUE

\* The tests of ack on the first byte (line 166) and on the second (line 169).
AckFirst(r) == r = <<Resp_STK_INSYNC>>

AckSecond(r) == r = <<Resp_STK_OK>>

\* set_device up to the select of its ack.
SetDevice(m) ==
  [Send(m, SetDevicePacket) EXCEPT !.pc = "ack_wait", !.ret = "set_device", !.v = 0]

\* get_param(ParamList[i]) up to its select.
GetParam(m, i) ==
  [Send(m, ParamPacket(ParamList[i])) EXCEPT !.pc = "param_wait", !.v = i]

\* Line 353: the loop over the parameters breaks, and run goes on with
\* set_device.
ParamBreak(m) == SetDevice(m)

\* get_param returned None (lines 191-194).
ParamFailed(m) == ParamBreak([m EXCEPT !.paramFailed = TRUE])

\* get_param returned a value: the next parameter, or the end of the loop.
ParamOk(m) ==
  IF m.v < Len(ParamList) THEN GetParam(m, m.v + 1) ELSE SetDevice(m)

\* One attempt of sync: the packet is sent (lines 141-143).
SyncSend(m) == [Send(m, SyncPacket) EXCEPT !.pc = "sync_wait", !.nGetSync = @ + 1]

\* sync returns (it returns nothing: run goes on either way, lines 347-350).
SyncReturn(m, ok) ==
  LET m1 == [m EXCEPT !.nSyncFail = IF ok THEN @ ELSE @ + 1, !.it = 0]
  IN  IF m.ret = "sync1"
      THEN SyncSend([m1 EXCEPT !.ret = "sync2"])
      ELSE GetParam(clean([m1 EXCEPT !.ret = "", !.nGetSync = 0]), 1)

\* An attempt of sync was not answered with in-sync: the next attempt, or
\* the end of the loop.
SyncRetry(m) ==
  IF m.it + 1 < SyncAttempts THEN SyncSend([m EXCEPT !.it = @ + 1])
  ELSE SyncReturn(m, FALSE)

(***************************************************************************)
(* The hex files main is run on.                                           *)
(***************************************************************************)
\* Image bytes: byte k of a payload of n bytes.
Payload(n) == [k \in 1..n |-> (k * 7) % 256]

\* Two records: 8 bytes at address 0, and the end-of-file record.
HexSmall == [open |-> TRUE, lines |-> <<FormatLine(0, 0, Payload(8)), EofLine>>]

\* 130 bytes at address 0 in two records, 2 bytes at 0x0100, end of file:
\* a chunk of two pages, a chunk of one page, and an empty chunk.
HexPages ==
  [open |-> TRUE,
   lines |-> <<FormatLine(0, 0, Payload(128)), FormatLine(128, 0, Payload(2)),
               FormatLine(256, 0, Payload(2)), EofLine>>]

\* The checksum of the second line is off by one.
HexBadChecksum ==
  [open |-> TRUE,
   lines |-> <<FormatLine(0, 0, Payload(8)),
               FormatLineWith(8, 0, Payload(2), (RecordChecksum(8, 0, Payload(2)) + 1) % 256)>>]

\* The first line does not begin with the record marker.
HexNoMarker == [open |-> TRUE, lines |-> <<Tail(FormatLine(0, 0, Payload(8))), EofLine>>]

\* The second line begins with ';' in place of the record marker and is a
\* correct record otherwise.
HexLateNoMarker ==
  [open |-> TRUE,
   lines |-> <<FormatLine(0, 0, Payload(8)),
               <<";">> \o Tail(FormatLine(8, 0, Payload(2))), EofLine>>]

\* A line with a character that is no hexadecimal digit.
HexBadDigit == [open |-> TRUE, lines |-> <<FormatLine(0, 0, Payload(8)), <<":", "0", "G">> >>]

\* A file open() cannot open, and an empty file.
HexMissing == [open |-> FALSE, lines |-> <<>>]
HexEmpty == [open |-> TRUE, lines |-> <<>>]

Files == {HexSmall, HexPages, HexBadChecksum, HexNoMarker, HexLateNoMarker,
          HexBadDigit, HexMissing, HexEmpty}

(***************************************************************************)
(* Initial state: main has parsed its arguments and loaded the             *)
(* configuration.                                                          *)
(***************************************************************************)
InitRest ==
  /\ h = [kind |-> "start"]
  /\ lineNo = 1
  /\ chunks = <<>>
  /\ pc = "start"
  /\ ret = "" /\ it = 0 /\ v = 0 /\ ci = 0 /\ index = 0 /\ addr = 0
  /\ data = <<>> /\ sign = "unset"
  /\ rx = <<>> /\ closed = FALSE
  /\ sl = "unopened" /\ at = "unopened" /\ gpio = "unset"
  /\ out = <<>> /\ lastAck = NoAck /\ uploadAckFail = FALSE
  /\ nSyncFail = 0 /\ paramFailed = FALSE /\ enterAcked = FALSE
  /\ uploaded = "none" /\ verifyDev = FALSE /\ nProg = 0 /\ nLeave = 0
  /\ runEnd = "none" /\ caught = FALSE /\ exitKind = "none"
  /\ lastCmd = 0 /\ nGetSync = 0

\* The configurations: device_address, slport and atport name the peer (lines
\* 125, 389); verify is the flag of the verify phase.
Confs == [verify : BOOLEAN]

Init == file \in Files /\ conf = [verify |-> TRUE] /\ InitRest

\* main on a one-page image under every configuration.
InitConf == file = HexSmall /\ conf \in Confs /\ InitRest

(***************************************************************************)
(* main                                                                    *)
(***************************************************************************)
\* Lines 497-502 and 509, with the result of read_hex_file: with chunks,
\* both connections are opened (SerialLine cleans its own) and reset sends
\* +++ and AT+GPIO0=0; without, main reports the error.
MainWith(m, res) ==
  IF res.kind = "list" /\ res.chunks # <<>>
  THEN [clean(m) EXCEPT !.h = res, !.chunks = res.chunks, !.sl = "open",
                        !.at = "open", !.gpio = "0", !.pc = "at_reset_low"]
  ELSE IF res.kind \in {"list", "None"}
  THEN [m EXCEPT !.h = res, !.pc = "exit", !.exitKind = "normal"]
  ELSE [m EXCEPT !.h = res, !.pc = "exit", !.exitKind = res.kind]

\* Lines 496-502 up to the first recv of at.reset().
MainStart ==
  /\ pc = "start"
  /\ Commit(MainWith(Fresh, read_hex_file(file)))

\* at.reset(), lines 395-398: the answer to AT+GPIO0=0 is received (the
\* module answers; what it answers is not looked at), AT+GPIO0=1 is sent.
AtResetLow ==
  /\ pc = "at_reset_low"
  /\ Commit([Fresh EXCEPT !.gpio = "1", !.pc = "at_reset_high"])

\* at.reset() returns; run starts: the first sync sends its first packet.
AtResetHigh ==
  /\ pc = "at_reset_high"
  /\ Commit(SyncSend([Fresh EXCEPT !.runEnd = "running", !.ret = "sync1", !.it = 0]))

\* at.close(), lines 403-409.
AtCloseGpio ==
  /\ pc = "at_close_gpio"
  /\ Commit([Fresh EXCEPT !.pc = "at_close_query"])

AtCloseQuery ==
  /\ pc = "at_close_query"
  /\ Commit([Fresh EXCEPT !.pc = "at_close_exit"])

\* at.close() closes its socket; sl.close() cleans and closes; main ends.
AtCloseExit ==
  /\ pc = "at_close_exit"
  /\ Commit([clean(Fresh) EXCEPT !.at = "closed", !.sl = "closed", !.pc = "exit",
                                 !.exitKind = "normal"])

\* The blocking calls inside main's try block.
TryPcs == {"at_reset_low", "at_reset_high", "sync_wait", "sync_recv",
           "param_wait", "param_recv", "ack_wait", "ack_recv", "sign_wait",
           "sign_recv", "page_wait", "page_data", "page_status"}

\* The blocking calls of run.
RunPcs == TryPcs \ {"at_reset_low", "at_reset_high"}

\* A KeyboardInterrupt inside the try block is caught: at.close() follows.
Interrupt ==
  /\ pc \in TryPcs
  /\ Commit(AtCloseStart([ClearLocals(Fresh) EXCEPT
                            !.caught = TRUE,
                            !.runEnd = IF pc \in RunPcs THEN "KeyboardInterrupt" ELSE @]))

\* A KeyboardInterrupt during at.close() or sl.close() is not caught.
InterruptClose ==
  /\ pc \in {"at_close_gpio", "at_close_query", "at_close_exit"}
  /\ Commit([Fresh EXCEPT !.pc = "exit", !.exitKind = "KeyboardInterrupt"])

(***************************************************************************)
(* SerialLine: one action for each blocking call.                          *)
(***************************************************************************)
\* sync, lines 143-153: select with a timeout, then the first byte.
SyncWait ==
  /\ pc = "sync_wait"
  /\ IF ~Readable THEN Commit(SyncRetry(Fresh))
     ELSE LET r == RecvBytes(Fresh, 1)
              m == Drop(Fresh, 1)
          IN  IF r = <<Resp_STK_INSYNC>> THEN Commit([m EXCEPT !.pc = "sync_recv"])
              ELSE Commit(SyncRetry(m))

\* sync, lines 148-151: the second byte, whatever it is.
SyncRecv ==
  /\ pc = "sync_recv"
  /\ Readable
  /\ Commit(SyncReturn(Drop(Fresh, 1), TRUE))

\* get_param, lines 182-194.
ParamWait ==
  /\ pc = "param_wait"
  /\ IF ~Readable THEN Commit(ParamFailed(Fresh))
     ELSE LET r == RecvBytes(Fresh, 1)
              m == Drop(Fresh, 1)
          IN  IF r = <<Resp_STK_INSYNC>> THEN Commit([m EXCEPT !.pc = "param_recv"])
              ELSE Commit(ParamFailed(m))

\* get_param, lines 187-190: recv(2), then reply[1].
ParamRecv ==
  /\ pc = "param_recv"
  /\ Readable
  /\ LET reply == <<Resp_STK_INSYNC>> \o RecvBytes(Fresh, 2)
         m == Drop(Fresh, 2)
     IN  IF Len(reply) < 2 THEN Commit(RunRaise(m, "IndexError"))
         ELSE Commit(ParamOk(m))

\* ack, lines 162-166 and 172-175.
AckWait ==
  /\ pc = "ack_wait"
  /\ IF ~Readable
     THEN Commit(AckReturn([Fresh EXCEPT !.lastAck =
                   AckLog(TRUE, <<>>, <<>>, FALSE)], FALSE))
     ELSE LET r == RecvBytes(Fresh, 1)
              m == Drop(Fresh, 1)
          IN  IF AckFirst(r) THEN Commit([m EXCEPT !.pc = "ack_recv"])
              ELSE Commit(AckReturn([m EXCEPT !.lastAck =
                     AckLog(FALSE, r, <<>>, FALSE)], FALSE))

\* ack, lines 167-173.
AckRecv ==
  /\ pc = "ack_recv"
  /\ Readable
  /\ LET r == RecvBytes(Fresh, 1)
         m == Drop(Fresh, 1)
         result == AckSecond(r)
     IN  Commit(AckReturn([m EXCEPT !.lastAck =
           AckLog(FALSE, <<Resp_STK_INSYNC>>, r, result)], result))

\* get_signature, lines 247-251 and 257-260.
SignWait ==
  /\ pc = "sign_wait"
  /\ IF ~Readable THEN Commit(SignReturn(Fresh, None))
     ELSE LET r == RecvBytes(Fresh, 1)
              m == Drop(Fresh, 1)
          IN  IF r = <<Resp_STK_INSYNC>> THEN Commit([m EXCEPT !.pc = "sign_recv"])
              ELSE Commit(SignReturn(m, None))

\* get_signature, lines 252-258: recv(4), then reply[4].
SignRecv ==
  /\ pc = "sign_recv"
  /\ Readable
  /\ LET reply == <<Resp_STK_INSYNC>> \o RecvBytes(Fresh, 4)
         m == Drop(Fresh, 4)
     IN  IF Len(reply) < 5 THEN Commit(RunRaise(m, "IndexError"))
         ELSE IF reply[5] = Resp_STK_OK THEN Commit(SignReturn(m, "bytes"))
         ELSE Commit(SignReturn(m, None))

\* verify, lines 320-324 and 339-341.
PageWait ==
  /\ pc = "page_wait"
  /\ IF ~Readable THEN Commit(VerifyAbort(Fresh))
     ELSE LET r == RecvBytes(Fresh, 1)
              m == Drop(Fresh, 1)
          IN  IF r = <<Resp_STK_INSYNC>> THEN Commit([m EXCEPT !.pc = "page_data"])
              ELSE Commit(VerifyNotInSync(m))

\* verify, lines 325-329: one recv of the loop that collects the page.  At
\* the end of the stream recv returns nothing and the loop does not end.
PageData ==
  /\ pc = "page_data"
  /\ Readable
  /\ LET n == pgsz - Len(data)
         m == [Drop(Fresh, n) EXCEPT !.data = @ \o RecvBytes(Fresh, n)]
     IN  IF Len(m.data) < pgsz THEN Commit(m)
         ELSE Commit([m EXCEPT !.pc = "page_status"])

\* verify, lines 330-338.
PageStatus ==
  /\ pc = "page_status"
  /\ Readable
  /\ Commit(VerifyStatus(Drop(Fresh, 1), RecvBytes(Fresh, 1)))

(***************************************************************************)
(* The target, on the programming connection.                              *)
(***************************************************************************)
envVars == <<file, conf, h, lineNo, chunks, pc, ret, it, v, ci, index, addr, data, sign,
             sl, at, gpio, out, lastAck, uploadAckFail, nSyncFail, paramFailed,
             enterAcked, uploaded, verifyDev, nProg, nLeave, runEnd, caught, exitKind,
             lastCmd, nGetSync>>

\* The target sends one byte, while the program is in reset or run.  While
\* the program collects a page the target sends page segments instead.
TargetSendByte ==
  /\ sl = "open" /\ ~closed
  /\ pc \in TryPcs \ {"page_data"}
  /\ Len(rx) < MaxRx
  /\ \E b \in ReplyBytes : rx' = Append(rx, b)
  /\ UNCHANGED envVars
  /\ UNCHANGED closed

\* The rest of the page the program collects: whole, its first half only,
\* or whole with its first byte wrong.
PageSegments ==
  LET rest == SubSeq(Block(chunks[ci], index), Len(data) + 1, pgsz)
  IN  {rest, SubSeq(rest, 1, (Len(rest) + 1) \div 2),
       [rest EXCEPT ![1] = (@ + 1) % 256]}

TargetSendPage ==
  /\ pc = "page_data" /\ ~closed /\ rx = <<>>
  /\ \E seg \in PageSegments : rx' = seg
  /\ UNCHANGED envVars
  /\ UNCHANGED closed

\* The target closes the stream.
TargetClose ==
  /\ sl = "open" /\ ~closed
  /\ pc \in RunPcs
  /\ rx = <<>>
  /\ closed' = TRUE
  /\ UNCHANGED envVars
  /\ UNCHANGED rx

Next ==
  \/ MainStart
  \/ AtResetLow
  \/ AtResetHigh
  \/ SyncWait
  \/ SyncRecv
  \/ ParamWait
  \/ ParamRecv
  \/ AckWait
  \/ AckRecv
  \/ SignWait
  \/ SignRecv
  \/ PageWait
  \/ PageData
  \/ PageStatus
  \/ AtCloseGpio
  \/ AtCloseQuery
  \/ AtCloseExit
  \/ Interrupt
  \/ InterruptClose
  \/ TargetSendByte
  \/ TargetSendPage
  \/ TargetClose

Spec == Init /\ [][Next]_vars

SpecConf == InitConf /\ [][Next]_vars

(***************************************************************************)
(* read_hex_file step by step, on files written from bounded records.      *)
(***************************************************************************)
\* The most records of a generated file.
MaxRecords == 3

\* The addresses and payload sizes of the generated records.
RecAddrs == {0, 8, 16}
RecSizes == {0, 8}

\* The payload of the j-th record of a file: size bytes that tell the
\* records and their bytes apart.
RecData(address, size, j) == [k \in 1..size |-> (address + 32 * j + k) % 256]

\* The file with the records rs, a sequence of <<address, size>>.
RecFile(rs) ==
  [open |-> TRUE,
   lines |-> [j \in 1..Len(rs) |->
                FormatLine(rs[j][1], 0, RecData(rs[j][1], rs[j][2], j))]]

HexInputs ==
  {RecFile(rs) : rs \in UNION {[1..n -> RecAddrs \X RecSizes] : n \in 1..MaxRecords}}

InitHex == file \in HexInputs /\ conf = [verify |-> TRUE] /\ InitRest

hexOnly == <<file, conf, chunks, pc, ret, it, v, ci, index, addr, data, sign, rx,
             closed, sl, at, gpio, out, lastAck, uploadAckFail, nSyncFail, paramFailed,
             enterAcked, uploaded, verifyDev, nProg, nLeave, runEnd, caught,
             exitKind, lastCmd, nGetSync>>

\* Lines 454-473.
HexOpen ==
  /\ h.kind = "start"
  /\ h' = ReadFirst(file)
  /\ lineNo' = 2
  /\ UNCHANGED hexOnly

\* Lines 474-486, one line.
HexLine ==
  /\ h.kind = "reading"
  /\ lineNo <= Len(file.lines)
  /\ h' = ReadNext(h, file.lines[lineNo])
  /\ lineNo' = lineNo + 1
  /\ UNCHANGED hexOnly

\* Line 487.
HexReturn ==
  /\ h.kind = "reading"
  /\ lineNo > Len(file.lines)
  /\ h' = ReadDone(h)
  /\ UNCHANGED lineNo
  /\ UNCHANGED hexOnly

NextHex ==
  \/ HexOpen
  \/ HexLine
  \/ HexReturn

SpecHex == InitHex /\ [][NextHex]_vars

(***************************************************************************)
(* read_hex_file on files with one character of a checksum field changed.  *)
(***************************************************************************)
\* The characters a character of the checksum field is changed to.
MutChars == {"0", "7", "F", "f", "a", "+", " ", "_", "G"}

\* line with the p-th character of its checksum field (its last two
\* characters) changed to c.
MutLine(line, p, c) == [line EXCEPT ![Len(line) - 2 + p] = c]

\* The file f with that change made to its j-th line.
MutFile(f, j, p, c) == [f EXCEPT !.lines[j] = MutLine(@, p, c)]

\* The changes of one character of the checksum field of one line of f.
Mutations(f) ==
  {x \in (1..Len(f.lines)) \X (1..2) \X MutChars :
     f.lines[x[1]][Len(f.lines[x[1]]) - 2 + x[2]] # x[3]}

\* The files of one or two well-formed records, with one such change.
MutInputs ==
  UNION {{MutFile(RecFile(rs), x[1], x[2], x[3]) : x \in Mutations(RecFile(rs))} :
           rs \in UNION {[1..n -> RecAddrs \X RecSizes] : n \in 1..2}}

InitMut == file \in MutInputs /\ conf = [verify |-> TRUE] /\ InitRest

SpecMut == InitMut /\ [][NextHex]_vars

(***************************************************************************)
(* Properties.                                                             *)
(***************************************************************************)
\* The latest program step sent a command of one of these kinds.
Sends(kinds) == \E k \in 1..Len(out) : out[k][1] \in kinds

\* The pages upload programs: those of the chunks that are not empty.
RECURSIVE PagesFrom(_, _)
PagesFrom(cs, k) ==
  IF k > Len(cs) THEN 0
  ELSE ((Len(cs[k].data) + pgsz - 1) \div pgsz) + PagesFrom(cs, k + 1)

TotalPages(cs) == PagesFrom(cs, 1)

\* run has ended other than by an interrupt.
RunEnded == runEnd \in {"return", "IndexError"}

\* C1: whenever run has ended (by returning or by an exception of its own)
\* after enter-programming-mode was acknowledged, a leave-programming-mode
\* command has been sent.
C1_LeaveAfterEnter == (RunEnded /\ enterAcked) => nLeave >= 1

\* C2 as stated: when run has returned and every sync call synchronised and
\* no load-address or program-page acknowledge failed, every page of every
\* non-empty chunk was programmed and acknowledged and exactly one
\* leave-programming-mode command was sent.
C2_AsStated ==
  (runEnd = "return" /\ nSyncFail = 0 /\ ~uploadAckFail)
    => (nProg = TotalPages(chunks) /\ nLeave = 1)

\* C2 amended: the same, for a target that has also acknowledged set-device,
\* set-device-extended and enter-programming-mode and answered
\* read-signature with in-sync, three bytes and ok.
C2_EndToEnd ==
  (runEnd = "return" /\ nSyncFail = 0 /\ enterAcked /\ sign = "bytes"
     /\ ~uploadAckFail)
    => (nProg = TotalPages(chunks) /\ nLeave = 1 /\ uploaded = "ok")

C2_Witness ==
  /\ runEnd = "return" /\ nSyncFail = 0 /\ enterAcked /\ sign = "bytes"
  /\ ~uploadAckFail
  /\ nProg = TotalPages(chunks) /\ nProg > 1 /\ nLeave = 1

\* C3: once both sync calls of run have given up (no attempt of the retry
\* budget was answered with in-sync), no enter-programming-mode,
\* load-address or program-page command is sent.
C3_SyncFailAborts ==
  nSyncFail = 2
    => ~Sends({Cmnd_STK_ENTER_PROGMODE, Cmnd_STK_LOAD_ADDRESS, Cmnd_STK_PROG_PAGE})

\* C4: ack returns success exactly when a first byte arrived within the
\* timeout, it is the in-sync marker, and the byte after it is ok; a
\* timeout, another first byte, and another second byte give failure.
C4_AckIff ==
  lastAck.returned =>
    /\ lastAck.result <=>
         (/\ ~lastAck.timeout
          /\ lastAck.first = <<Resp_STK_INSYNC>>
          /\ lastAck.second = <<Resp_STK_OK>>)
    /\ lastAck.timeout => lastAck.first = <<>>
    /\ lastAck.first # <<Resp_STK_INSYNC>> => lastAck.second = <<>>

C4_Witness ==
  /\ lastAck.returned /\ ~lastAck.result
  /\ lastAck.first = <<Resp_STK_INSYNC>> /\ lastAck.second = <<Resp_STK_INSYNC>>

\* C5: once an acknowledge of load-address or program-page has failed in
\* upload, upload has returned failure, no load-address, program-page or
\* read-page command is sent any more, and verify is not started.
C5_UploadAborts ==
  uploadAckFail =>
    /\ uploaded = "failed"
    /\ ~Sends({Cmnd_STK_LOAD_ADDRESS, Cmnd_STK_PROG_PAGE, Cmnd_STK_READ_PAGE})
    /\ pc \notin {"page_wait", "page_data", "page_status"}
    /\ ret \notin {"upload_load", "upload_prog", "verify_load"}

C5_Witness ==
  /\ uploadAckFail /\ nProg = 1 /\ TotalPages(chunks) = 3
  /\ Sends({Cmnd_STK_LEAVE_PROGMODE})

\* C6: once a page of verify has deviated (no reply in time, a reply that
\* does not start with in-sync, a status byte that is not ok, or page data
\* that differ), no load-address or read-page command is sent any more.
C6_VerifyAborts ==
  verifyDev => ~Sends({Cmnd_STK_LOAD_ADDRESS, Cmnd_STK_READ_PAGE})

\* C7: once a get-parameter exchange has deviated (a timeout, or a first
\* reply byte that is not in-sync), no get-parameter, set-device,
\* enter-programming-mode or programming command is sent any more.
C7_ParamFailAbortsRun ==
  paramFailed =>
    ~Sends({Cmnd_STK_GET_PARAMETER, Cmnd_STK_SET_DEVICE, Cmnd_STK_SET_DEVICE_EXT,
            Cmnd_STK_ENTER_PROGMODE, Cmnd_STK_LOAD_ADDRESS, Cmnd_STK_PROG_PAGE})

\* C8: when main has ended after both connections were opened (an interrupt
\* outside reset and run apart), both connections are closed and the last
\* AT+GPIO0 command sent has deasserted the reset line.
C8_ClosedAtExit ==
  (pc = "exit" /\ sl # "unopened" /\ at # "unopened"
     /\ exitKind # "KeyboardInterrupt")
    => (sl = "closed" /\ at = "closed" /\ gpio = "0")

\* A file the loader is to reject: it cannot be opened, one of its lines
\* lacks the record marker, or one of its lines has a checksum mismatch.
LacksMarker(line) == line = <<>> \/ line[1] # ":"

ChecksumMismatch(line) == ~parse_line(line).err /\ ~parse_line(line).ok

ToBeRejected(f) ==
  \/ ~f.open
  \/ \E j \in 1..Len(f.lines) : LacksMarker(f.lines[j])
  \/ \E j \in 1..Len(f.lines) : ChecksumMismatch(f.lines[j])

\* C9: for a hex file that cannot be opened, or with a line that lacks the
\* record marker, or with a line whose checksum does not match, neither
\* connection is ever opened and nothing is sent on either.
C9_NoTransportIfRejected ==
  ToBeRejected(file) =>
    /\ sl = "unopened" /\ at = "unopened"
    /\ out = <<>> /\ gpio = "unset"

\* The reassembly as C10 states it: the first record seeds chunk 0; a later
\* record extends the last chunk when its address is that chunk's origin
\* plus length, and appends one new chunk otherwise.
RefAdd(cs, rec) ==
  IF rec.address = cs[Len(cs)][1] + Len(cs[Len(cs)][2])
  THEN [cs EXCEPT ![Len(cs)] = <<@[1], @[2] \o rec.data>>]
  ELSE Append(cs, <<rec.address, rec.data>>)

RECURSIVE RefChunks(_, _)
RefChunks(lines, n) ==
  IF n = 1 THEN << <<parse_line(lines[1]).address, parse_line(lines[1]).data>> >>
  ELSE RefAdd(RefChunks(lines, n - 1), parse_line(lines[n]))

\* The origins and payloads of a list of chunks.
ChunkView(cs) == [k \in 1..Len(cs) |-> <<cs[k].begin, cs[k].data>>]

\* C10: after every record read, and in the list returned, the chunks are
\* those of the reassembly rule (in the order of first appearance), the
\* current chunk is the last one, every chunk's size is the length of its
\* payload, and no chunk ends where the chunk after it begins; records at
\* 0x0000 and 0x0008 of 8 bytes give one chunk of 16 bytes at 0x0000, and
\* records at 0x0000 and 0x0010 give two chunks.
C10_Reassembly ==
  h.kind \in {"reading", "list"} =>
    /\ ChunkView(h.chunks) = RefChunks(file.lines, lineNo - 1)
    /\ h.kind = "reading" => h.index = Len(h.chunks) - 1
    /\ \A k \in 1..Len(h.chunks) : h.chunks[k].size = Len(h.chunks[k].data)
    /\ \A k \in 1..(Len(h.chunks) - 1) :
         h.chunks[k].begin + Len(h.chunks[k].data) # h.chunks[k + 1].begin
    /\ (h.kind = "list" /\ file = RecFile(<< <<0, 8>>, <<8, 8>> >>))
         => (/\ Len(h.chunks) = 1 /\ h.chunks[1].begin = 0
             /\ Len(h.chunks[1].data) = 16)
    /\ (h.kind = "list" /\ file = RecFile(<< <<0, 8>>, <<16, 8>> >>))
         => (/\ Len(h.chunks) = 2 /\ h.chunks[2].begin = 16)

C10_Witness ==
  /\ h.kind = "list" /\ Len(file.lines) = 3 /\ Len(h.chunks) = 2
  /\ Len(h.chunks[1].data) = 16

\* C11: a file in which one character of the checksum field of one
\* otherwise well-formed line was changed is rejected: the loader does not
\* return a list of chunks for it.
C11_ChecksumMutationRejected == h.kind # "list"

\* C12: a file in which some line, at any position, does not begin with the
\* record marker is rejected by the loader and yields no chunks.
C12_MarkerOnEveryLine ==
  (\E j \in 1..Len(file.lines) : LacksMarker(file.lines[j]))
    => (h.kind # "list" /\ chunks = <<>>)

\* Page k (from 0) of the payload d as C13 states it: the bytes of d from
\* offset k * pageSize, then 0xFF where d has ended.
ExpectedPage(d, k) ==
  [j \in 1..pgsz |-> IF k * pgsz + j <= Len(d) THEN d[k * pgsz + j] ELSE 255]

\* The page upload or verify is at.
PageNow == ExpectedPage(chunks[ci].data, index \div pgsz)

\* The page verify is at is the last page of the last chunk it reads.
LastPage ==
  /\ index + pgsz >= Len(chunks[ci].data)
  /\ NextChunk(chunks, ci + 1) = 0

\* A program-page command sent carries the page upload is at.
ProgPageCarriesPage ==
  \A k \in 1..Len(out) :
    out[k][1] = Cmnd_STK_PROG_PAGE =>
      /\ Len(out[k]) = pgsz + 5
      /\ SubSeq(out[k], 5, pgsz + 4) = PageNow
      /\ index % pgsz = 0 /\ index < Len(chunks[ci].data)

\* The step of verify that has read the status byte of a page that is not
\* the last goes on to the next page exactly when the status is ok and the
\* page read is the expected page.
VerifyComparesPage ==
  (pc = "page_status" /\ pc' = "ack_wait" /\ ~LastPage)
    => (ret' = "verify_load"
          <=> (rx # <<>> /\ Head(rx) = Resp_STK_OK /\ data = PageNow))

\* C13: every program-page command carries exactly pageSize data bytes, the
\* bytes of the chunk from offset k * pageSize followed by 0xFF fill, and
\* verify accepts for page k exactly that same page.
C13_PagePadding == [](ProgPageCarriesPage) /\ [][VerifyComparesPage]_vars

C13_Witness ==
  /\ pc = "ack_wait" /\ ret = "verify_load" /\ ci = 2 /\ index = 0
  /\ ~verifyDev /\ nProg = 3 /\ Len(chunks[1].data) = pgsz + 2

\* The 16-bit address a load-address packet encodes, low byte first.
Encoded(packet) == packet[2] + 256 * packet[3]

\* The load-address packets the latest step sent for a page of upload or
\* verify.
PageAddressSent ==
  IF ret \in {"upload_load", "verify_load"}
  THEN {k \in 1..Len(out) : out[k][1] = Cmnd_STK_LOAD_ADDRESS}
  ELSE {}

\* C14: the load-address command sent for the page that starts at byte
\* address B = chunk origin + k * pageSize encodes the word address B / 2,
\* low byte first, then high byte.
C14_WordAddress ==
  \A k \in PageAddressSent :
    /\ Len(out[k]) = 4
    /\ Encoded(out[k]) = ((chunks[ci].begin + index) \div 2) % 65536

\* A load-address command sent encodes addr.
LoadEncodesAddr ==
  \A k \in PageAddressSent : Encoded(out[k]) = addr % 65536

\* A step from one page of a chunk to the next page of the same chunk, in
\* upload (the page was acknowledged) and in verify.
NextPageStep ==
  /\ ci' = ci /\ pc' = "ack_wait"
  /\ \/ ret = "upload_prog" /\ ret' = "upload_load"
     \/ pc \in {"page_wait", "page_status"} /\ ret' = "verify_load"

\* C16: within one chunk, after a page at word address A the next
\* load-address command encodes A + pageSize / 2 and the byte index into
\* the chunk has advanced by pageSize.
C16_AddressStepping ==
  /\ [](LoadEncodesAddr)
  /\ [][NextPageStep =>
          /\ addr' = addr + (pgsz \div 2)
          /\ index' = index + pgsz
          /\ PageAddressSent' # {}]_vars

C16_Witness ==
  /\ pc = "ack_wait" /\ ret = "upload_load" /\ index = pgsz /\ nProg = 1
  /\ out = << <<Cmnd_STK_LOAD_ADDRESS, 64, 0, Sync_CRC_EOP>> >>

\* C15: when the verify flag of the configuration is false, run sends no
\* read-page command.
C15_VerifyOptional == ~conf.verify => ~Sends({Cmnd_STK_READ_PAGE})

\* C17: a run sends the get-sync command at most ten times in total; once
\* sync failure has been declared, after the tenth unanswered attempt, no
\* further get-sync command is sent.
C17_SyncBudget ==
  /\ nGetSync <= SyncAttempts
  /\ nSyncFail >= 1 => ~Sends({Cmnd_STK_GET_SYNC})

\* The selects at which the program waits for the reply to the command it
\* has just sent.
WaitPcs == {"sync_wait", "param_wait", "ack_wait", "sign_wait", "page_wait"}

\* A program step sends at most one command and then waits for its reply.
OneCommandThenWait ==
  /\ Len(out) <= 1
  /\ out # <<>> => pc \in WaitPcs

\* A step that sends a program-page or read-page command: the last command
\* sent before it is a load-address, and the ack that returned in this step
\* (the one waited for after that load-address) succeeded.
PageCommandAfterAddress ==
  (pc' # pc /\ Sends({Cmnd_STK_PROG_PAGE, Cmnd_STK_READ_PAGE})')
    => /\ lastCmd = Cmnd_STK_LOAD_ADDRESS
       /\ lastAck'.returned /\ lastAck'.result
       /\ lastAck'.first = <<Resp_STK_INSYNC>> /\ lastAck'.second = <<Resp_STK_OK>>

\* C18: every program-page and read-page command is immediately preceded by
\* a load-address command whose acknowledge succeeded, and a command is sent
\* only after the wait for the reply to the command before it has ended.
C18_CommandOrdering ==
  /\ [](OneCommandThenWait)
  /\ [][PageCommandAfterAddress]_vars

C18_Witness ==
  /\ Sends({Cmnd_STK_READ_PAGE}) /\ pc = "page_wait" /\ index = pgsz
  /\ lastAck.returned /\ lastAck.result /\ lastCmd = Cmnd_STK_READ_PAGE

\* A step of run that gets on: one of SerialLine's blocking calls returns
\* (with bytes, at the end of the stream, or by its timeout) and the state
\* of run changes.
RunGetsOn ==
  /\ \/ SyncWait \/ SyncRecv \/ ParamWait \/ ParamRecv \/ AckWait \/ AckRecv
     \/ SignWait \/ SignRecv \/ PageWait \/ PageData \/ PageStatus
  /\ vars' # vars

\* C19: every wait for a reply is bounded by a timeout: wherever run waits,
\* it gets on without a further byte from the target, also after an in-sync
\* marker and inside a page of verify, so that run terminates.
C19_WaitsBounded == pc \in RunPcs => ENABLED RunGetsOn

\* A program step that sends a command after an earlier one: the bytes left
\* in rx were sent by the target before this command, in answer to earlier
\* ones, and the wait that follows receives them first.
SendsOverUnread ==
  /\ envVars' # envVars
  /\ out' # <<>> /\ lastCmd # 0
  /\ rx' # <<>>

\* C20: every reply byte a wait receives was sent in answer to the command
\* sent immediately before that wait: no command is sent while bytes sent
\* in answer to earlier commands (a late answer to a retried get-sync, the
\* unread rest of a reply whose first byte made ack fail) are still unread.
C20_ReplyAlignment == [][~SendsOverUnread]_vars

====
